---- MODULE Spec2Model ----
(***************************************************************************)
(* Model of overwatch/src/services/relay.rs: the Relay<S> connection state *)
(* machine, the type-erased handshake with the overwatch coordinator, and  *)
(* the bounded channel pair (InboundRelay / OutboundRelay).                *)
(***************************************************************************)
EXTENDS Integers, Sequences, FiniteSets, TLC

\* ------------------------------------------------------------------ bounds
MaxRelays == 2
MaxChans == 2
MaxCap == 1
MaxMsg == 1

Relays == 1..MaxRelays
ChanIds == 1..MaxChans
Msgs == 1..MaxMsg

\* The service types S a Relay<S> is instantiated for.
Services == {"SvcA", "SvcB"}

\* The queues built by relay::<MsgA>(buffer_size): two inbound queues that
\* carry SvcA's message type.  No queue of SvcB's message type is built, so
\* every reply a Relay<SvcB> gets is of the wrong type.
Queues == {"q1", "q2"}

VARIABLES
    svc,        \* svc[r]: the S of Relay<S> held in slot r, or "none"
    state,      \* state[r]: Relay::state
    pc,         \* pc[r]: where the async call running on relay r is suspended
    chans,      \* chans[c]: the oneshot channel created by a connect() call
    commands,   \* relay-request commands handed to the coordinator, unanswered
    cap,        \* cap[q]: buffer_size of queue q
    buf,        \* buf[q]: messages buffered in queue q
    rxAlive,    \* rxAlive[q]: the InboundRelay of q has not been dropped
    original,   \* original[q]: the OutboundRelay returned by relay() is alive
    last        \* the call that returned last, and what it returned

vars == <<svc, state, pc, chans, commands, cap, buf, rxAlive, original, last>>

\* ------------------------------------------------------------ service types
\* S::SERVICE_ID
SERVICE_ID(s) == IF s = "SvcA" THEN "service-a" ELSE "service-b"

\* S::Message
MessageOf(s) == IF s = "SvcA" THEN "MsgA" ELSE "MsgB"

\* The M of the relay::<M>(buffer_size) call that built queue q.
QueueMsg(q) == "MsgA"

\* ------------------------------------------------------------------ errors
\* enum RelayError
ErrInvalidRequest(to) == [kind |-> "InvalidRequest", to |-> to]
ErrSend == [kind |-> "Send"]
ErrAlreadyConnected == [kind |-> "AlreadyConnected"]
ErrDisconnected == [kind |-> "Disconnected"]
ErrUnavailable(sid) == [kind |-> "Unavailable", service_id |-> sid]
\* Mutant of ErrInvalidMessage: the two fields are filled the wrong way round.
ErrInvalidMessage_Swapped(tid, sid) ==
    [kind |-> "InvalidMessage", type_id |-> sid, service_id |-> tid]
ErrInvalidMessage(tid, sid) ==
    [kind |-> "InvalidMessage", type_id |-> tid, service_id |-> sid]
\* Mutant of ErrReceiver: a failed reply channel is reported as Disconnected.
ErrReceiver_AsDisconnected(cause) == [kind |-> "Disconnected"]
ErrReceiver(cause) == [kind |-> "Receiver", cause |-> cause]

Ok == [tag |-> "Ok"]
Err(e) == [tag |-> "Err", error |-> e]

\* ------------------------------------------------------------ relay state
\* enum RelayState<M>
Disconnected == [tag |-> "Disconnected"]
Connected(outbound) == [tag |-> "Connected", outbound |-> outbound]

\* struct OutboundRelay<M>: a Sender<M> onto queue q.
OutboundRelay(q) == [kind |-> "OutboundRelay", queue |-> q]

\* struct NoMessage: a value that is no producer end at all.
NoMessage == [kind |-> "NoMessage"]

\* impl Clone for OutboundRelay: sender.clone() is another producer end of the
\* same queue.
OutboundRelayClone(o) == [kind |-> "OutboundRelay", queue |-> o.queue]

\* Mutant of RelayStateClone: the clone does not take the connection along.
RelayStateClone_Fresh(st) == [tag |-> "Disconnected"]

\* impl Clone for RelayState
RelayStateClone(st) ==
    IF st.tag = "Disconnected" THEN Disconnected
    ELSE Connected(OutboundRelayClone(st.outbound))

\* Relay::new: the state field of the constructed relay.
RelayNew == Disconnected

\* --------------------------------------------------------- erasure wrapper
\* The concrete type of a value: OutboundRelay<M> for the M of its queue.
TypeOf(v) ==
    IF v.kind = "OutboundRelay" THEN <<"OutboundRelay", QueueMsg(v.queue)>>
    ELSE <<"NoMessage">>

\* type AnyMessage = Box<dyn Any + Send + 'static>: Box::new(v) as AnyMessage.
AnyMessage(v) == [inner |-> v]

\* The values a coordinator can put into a success reply.
Payloads == {OutboundRelay(q) : q \in Queues} \cup {NoMessage}

\* message.downcast::<OutboundRelay<S::Message>>(): Ok(the value) when the
\* boxed value has exactly that type, Err(the box, untouched) otherwise.
Downcast(message, s) ==
    IF TypeOf(message.inner) = <<"OutboundRelay", MessageOf(s)>>
    THEN [ok |-> TRUE, channel |-> message.inner]
    ELSE [ok |-> FALSE, m |-> message]

\* m.type_id() with m : Box<dyn Any + Send> and std::any::Any in scope: method
\* lookup finds Any::type_id for the receiver &Box<dyn Any + Send> before it
\* dereferences the box, so the identity returned is that of the box type.
BoxTypeId(m) == <<"Box", "dyn Any + Send">>

\* format!("{:?}", type_id): the Debug text of a TypeId, one text per TypeId.
FormatTypeId(t) == <<"TypeId">> \o t

\* Mutant of HandleRelayResponse: the success arm returns Ok without storing
\* the channel.
HandleRelayResponse_NoStore(st, s, response) ==
    IF response.tag = "Ok" THEN
        IF response.val.tag = "Ok" THEN
            LET d == Downcast(response.val.message, s) IN
            IF d.ok
            THEN [state |-> st, result |-> Ok]
            ELSE [state |-> st,
                  result |-> Err(ErrInvalidMessage(FormatTypeId(BoxTypeId(d.m)),
                                                   SERVICE_ID(s)))]
        ELSE [state |-> st, result |-> Err(response.val.error)]
    ELSE [state |-> st, result |-> Err(ErrReceiver(response.error))]

\* Mutant of HandleRelayResponse: the coordinator's error is wrapped into
\* Receiver instead of being returned as it is.
HandleRelayResponse_WrapsError(st, s, response) ==
    IF response.tag = "Ok" THEN
        IF response.val.tag = "Ok" THEN
            LET d == Downcast(response.val.message, s) IN
            IF d.ok
            THEN [state |-> Connected(d.channel), result |-> Ok]
            ELSE [state |-> st,
                  result |-> Err(ErrInvalidMessage(FormatTypeId(BoxTypeId(d.m)),
                                                   SERVICE_ID(s)))]
        ELSE [state |-> st, result |-> Err(ErrReceiver(response.val.error))]
    ELSE [state |-> st, result |-> Err(ErrReceiver(response.error))]

\* Mutant of HandleRelayResponse: a producer end of the wrong message type is
\* stored before the downcast is known to have failed.
HandleRelayResponse_StoresEarly(st, s, response) ==
    IF response.tag = "Ok" THEN
        IF response.val.tag = "Ok" THEN
            LET d == Downcast(response.val.message, s) IN
            IF d.ok
            THEN [state |-> Connected(d.channel), result |-> Ok]
            ELSE [state |-> IF d.m.inner.kind = "OutboundRelay"
                            THEN Connected(d.m.inner) ELSE st,
                  result |-> Err(ErrInvalidMessage(FormatTypeId(BoxTypeId(d.m)),
                                                   SERVICE_ID(s)))]
        ELSE [state |-> st, result |-> Err(response.val.error)]
    ELSE [state |-> st, result |-> Err(ErrReceiver(response.error))]

\* Relay::handle_relay_response after receiver.await produced `response`:
\* the new state of the relay and the value returned.
HandleRelayResponse(st, s, response) ==
    IF response.tag = "Ok" THEN
        IF response.val.tag = "Ok" THEN
            LET d == Downcast(response.val.message, s) IN
            IF d.ok
            THEN [state |-> Connected(d.channel), result |-> Ok]
            ELSE [state |-> st,
                  result |-> Err(ErrInvalidMessage(FormatTypeId(BoxTypeId(d.m)),
                                                   SERVICE_ID(s)))]
        ELSE [state |-> st, result |-> Err(response.val.error)]
    ELSE [state |-> st, result |-> Err(ErrReceiver(response.error))]

\* ------------------------------------------------------------ channel pair
\* Mutant of Enqueue: a message sent goes to the front of the buffer.
Enqueue_Front(b, m) == <<m>> \o b

\* self.sender.send(message) completing: the message is added to the buffer b
\* behind what it holds.
Enqueue(b, m) == Append(b, m)

\* Mutant of Dequeue: recv() takes the message sent last.
Dequeue_Last(b) == [msg |-> b[Len(b)], rest |-> SubSeq(b, 1, Len(b) - 1)]

\* self.receiver.recv() completing on the non-empty buffer b: the message
\* returned and what stays buffered.
Dequeue(b) == [msg |-> Head(b), rest |-> Tail(b)]

\* Mutant of ProducerEnds: the producer ends held by relays and replies do not
\* keep the queue open.
ProducerEnds_OriginalOnly(q) == IF original[q] THEN 1 ELSE 0

\* The live producer ends of queue q: the one relay() returned, the one each
\* Connected relay holds, and the ones travelling in unread replies.
ProducerEnds(q) ==
    (IF original[q] THEN 1 ELSE 0)
    + Cardinality({r \in Relays : state[r] = Connected(OutboundRelay(q))})
    + Cardinality({c \in ChanIds :
          /\ chans[c].st = "sent"
          /\ chans[c].val = [tag |-> "Ok", message |-> AnyMessage(OutboundRelay(q))]})

\* The sends suspended on queue q in the pc function p.  A suspended send
\* holds turn 0 once a freed slot has been handed to it, and its place k >= 1
\* in the queue's line of waiters before that.
SuspendedOn(p, q) ==
    {r \in Relays : p[r].at = "send" /\ state[r].outbound.queue = q}
WaitingOn(p, q) == {r \in SuspendedOn(p, q) : p[r].turn >= 1}
GrantedOn(p, q) == {r \in SuspendedOn(p, q) : p[r].turn = 0}

\* Mutant of FreeSlotsOf: the queue takes one message more than its capacity.
FreeSlotsOf_OneMore(q) == cap[q] + 1 - Len(buf[q]) - Cardinality(GrantedOn(pc, q))

\* The slots of queue q neither filled nor handed to a suspended send.
FreeSlotsOf(q) == cap[q] - Len(buf[q]) - Cardinality(GrantedOn(pc, q))

\* Mutant of PollSend: the poll does not notice that the consumer end is gone.
PollSend_IgnoresClosed(q) ==
    IF FreeSlotsOf(q) > 0 THEN "ready" ELSE "pending"

\* The first poll of OutboundRelay::send (Sender::send) on queue q: "closed"
\* when the consumer end is gone, "ready" when a slot is free, "pending" when
\* the queue is at capacity.
PollSend(q) ==
    IF ~rxAlive[q] THEN "closed"
    ELSE IF FreeSlotsOf(q) > 0 THEN "ready"
    ELSE "pending"

\* Mutant of PollSuspended: a send that was handed a slot is not woken.
PollSuspended_NeverReady(p, r) ==
    IF ~rxAlive[state[r].outbound.queue] THEN "closed" ELSE "pending"

\* A later poll of a suspended OutboundRelay::send: "closed" when the consumer
\* end is gone, "ready" when a freed slot has been handed to it.
PollSuspended(p, r) ==
    IF ~rxAlive[state[r].outbound.queue] THEN "closed"
    ELSE IF p[r].turn = 0 THEN "ready"
    ELSE "pending"

\* A slot of queue q is freed: it is handed to the first send in line, and
\* the line moves up.
Release(p, q) ==
    [r \in Relays |->
        IF r \in WaitingOn(p, q) THEN [p[r] EXCEPT !.turn = @ - 1] ELSE p[r]]

\* The suspended send of relay r is dropped: it leaves the line, or hands the
\* slot it was given to the next in line.
Leave(p, r) ==
    [x \in Relays |->
        IF x = r THEN [at |-> "idle"]
        ELSE IF /\ x \in WaitingOn(p, state[r].outbound.queue)
                /\ p[x].turn > p[r].turn
             THEN [p[x] EXCEPT !.turn = @ - 1]
             ELSE p[x]]

\* Mutant of SendFailure: a send on a queue without consumer is reported as
\* if the relay were not connected.
SendFailure_AsDisconnected == Err(ErrDisconnected)

\* .map_err(|e| (RelayError::Send, e.0)) in OutboundRelay::send, then
\* .map_err(|(e, _message)| e) in Relay::send: the error a failed forward
\* becomes.
SendFailure == Err(ErrSend)

\* Mutant of SendWhileDisconnected: the else branch reports Send.
SendWhileDisconnected_AsSend == Err(ErrSend)

\* The else branch of Relay::send.
SendWhileDisconnected == Err(ErrDisconnected)

\* The else branch of Relay::connect.
ConnectWhileConnected == Err(ErrAlreadyConnected)

\* Mutant of ConnectProceeds: the state is not tested.
ConnectProceeds_Always(st) == TRUE

\* Mutant of ConnectProceeds: a relay that was connected once is refused.
ConnectProceeds_Never(st) == FALSE

\* The test `if let RelayState::Disconnected = self.state` of Relay::connect.
ConnectProceeds(st) == st.tag = "Disconnected"

\* The test `if let RelayState::Connected(..) = &mut self.state` of Relay::send.
SendProceeds(st) == st.tag = "Connected"

\* Mutant of DisconnectState: the state is left as it is.
DisconnectState_Keep(st) == st

\* Relay::disconnect: the state it assigns.
DisconnectState(st) == Disconnected

\* Mutant of RelayCommand: the request carries the sender of another channel
\* than the one connect() will wait on.
RelayCommand_OtherChannel(s, reply) ==
    [service_id |-> SERVICE_ID(s), reply_channel |-> (reply % MaxChans) + 1]

\* RelayCommand { service_id: S::SERVICE_ID, reply_channel: ReplyChannel(reply) }
RelayCommand(s, reply) == [service_id |-> SERVICE_ID(s), reply_channel |-> reply]

\* ------------------------------------------------------------------- state
NoRelay == [tag |-> "NoRelay"]
Idle == [at |-> "idle"]
NoCall == [op |-> "none"]
Returned(r, op, res) == [op |-> op, relay |-> r, res |-> res]
Received(q, res) == [op |-> "recv", queue |-> q, res |-> res]
Constructed(r) == [op |-> "new", relay |-> r]
Cloned(src, dst) == [op |-> "clone", relay |-> dst, from |-> src]
Abandoned == [tag |-> "Abandoned"]

Init ==
    /\ svc = [r \in Relays |-> "none"]
    /\ state = [r \in Relays |-> NoRelay]
    /\ pc = [r \in Relays |-> Idle]
    /\ chans = [c \in ChanIds |-> [st |-> "unused"]]
    /\ commands = {}
    /\ cap \in [Queues -> 1..MaxCap]
    /\ buf = [q \in Queues |-> <<>>]
    /\ rxAlive = [q \in Queues |-> TRUE]
    /\ original = [q \in Queues |-> TRUE]
    /\ last = NoCall

\* The relay slots not constructed yet; a new relay takes the first of them.
FreeSlots == {r \in Relays : svc[r] = "none"}
FreshSlot == CHOOSE r \in FreeSlots : \A x \in FreeSlots : r <= x

\* oneshot::channel(): the channel a connect() call creates is one no other
\* call holds an end of.
FreeChans == {c \in ChanIds : chans[c].st = "unused"}

\* Mutant of FreshChan: every connect() call uses the same reply channel.
FreshChan_First == CHOOSE c \in ChanIds : \A x \in ChanIds : c <= x

FreshChan == CHOOSE c \in FreeChans : \A x \in FreeChans : c <= x

queueVars == <<cap, buf, rxAlive, original>>
coordVars == <<chans, commands>>

\* ------------------------------------------------------------ Relay<S> API
\* Relay::<S>::new(overwatch_handle) into the free slot r.
New(r, s) ==
    /\ FreeSlots # {} /\ r = FreshSlot
    /\ svc' = [svc EXCEPT ![r] = s]
    /\ state' = [state EXCEPT ![r] = RelayNew]
    /\ last' = Constructed(r)
    /\ UNCHANGED <<pc, coordVars, queueVars>>

\* impl Clone for Relay: src.clone() into the free slot dst.
Clone(src, dst) ==
    /\ svc[src] # "none" /\ pc[src] = Idle
    /\ FreeSlots # {} /\ dst = FreshSlot
    /\ svc' = [svc EXCEPT ![dst] = svc[src]]
    /\ state' = [state EXCEPT ![dst] = RelayStateClone(state[src])]
    /\ last' = Cloned(src, dst)
    /\ UNCHANGED <<pc, coordVars, queueVars>>

\* Relay::connect up to its first suspension point: either the immediate
\* AlreadyConnected, or the oneshot channel is created and request_relay
\* starts.
Connect(r) ==
    /\ svc[r] # "none" /\ pc[r] = Idle
    /\ IF ConnectProceeds(state[r])
       THEN /\ FreeChans # {}
            /\ chans' = [chans EXCEPT ![FreshChan] = [st |-> "open"]]
            /\ pc' = [pc EXCEPT ![r] = [at |-> "request_relay", reply |-> FreshChan]]
            /\ UNCHANGED <<last, commands>>
       ELSE /\ last' = Returned(r, "connect", ConnectWhileConnected)
            /\ UNCHANGED <<pc, chans, commands>>
    /\ UNCHANGED <<svc, state, queueVars>>

\* Relay::request_relay: overwatch_handle.send(relay_command).await hands the
\* command to the coordinator; connect then awaits the receiver.
RequestRelay(r) ==
    /\ pc[r].at = "request_relay"
    /\ commands' = commands \cup {RelayCommand(svc[r], pc[r].reply)}
    /\ pc' = [pc EXCEPT ![r] = [at |-> "handle_relay_response",
                                receiver |-> pc[r].reply]]
    /\ UNCHANGED <<svc, state, last, chans, queueVars>>

\* What receiver.await yields once the oneshot channel is resolved.
Response(ch) ==
    IF ch.st = "sent" THEN [tag |-> "Ok", val |-> ch.val]
    ELSE [tag |-> "Err", error |-> "RecvError"]

\* Relay::handle_relay_response: receiver.await resolves and the reply is
\* matched.
AwaitReply(r) ==
    /\ pc[r].at = "handle_relay_response"
    /\ chans[pc[r].receiver].st \in {"sent", "tx_dropped"}
    /\ LET out == HandleRelayResponse(state[r], svc[r],
                                      Response(chans[pc[r].receiver])) IN
        /\ state' = [state EXCEPT ![r] = out.state]
        /\ last' = Returned(r, "connect", out.result)
    /\ chans' = [chans EXCEPT ![pc[r].receiver] = [st |-> "unused"]]
    /\ pc' = [pc EXCEPT ![r] = Idle]
    /\ UNCHANGED <<svc, commands, queueVars>>

\* The connect() future is dropped at one of its suspension points: its
\* locals (the reply sender not yet handed over, the receiver) are dropped.
ConnectAbandon(r) ==
    /\ pc[r].at \in {"request_relay", "handle_relay_response"}
    /\ chans' = [chans EXCEPT ![IF pc[r].at = "request_relay" THEN pc[r].reply
                                ELSE pc[r].receiver] =
                    IF pc[r].at = "handle_relay_response" /\ @.st = "open"
                    THEN [st |-> "rx_dropped"] ELSE [st |-> "unused"]]
    /\ pc' = [pc EXCEPT ![r] = Idle]
    /\ last' = Returned(r, "connect", Abandoned)
    /\ UNCHANGED <<svc, state, commands, queueVars>>

\* Relay::disconnect
Disconnect(r) ==
    /\ svc[r] # "none" /\ pc[r] = Idle
    /\ state' = [state EXCEPT ![r] = DisconnectState(state[r])]
    /\ last' = Returned(r, "disconnect", Ok)
    /\ UNCHANGED <<svc, pc, coordVars, queueVars>>

\* Relay::send up to its first suspension point: the immediate Disconnected,
\* or the first poll of outbound_relay.send(message).
Send(r, m) ==
    /\ svc[r] # "none" /\ pc[r] = Idle
    /\ IF SendProceeds(state[r])
       THEN LET q == state[r].outbound.queue IN
            CASE PollSend(q) = "ready" ->
                    /\ buf' = [buf EXCEPT ![q] = Enqueue(@, m)]
                    /\ last' = Returned(r, "send", Ok)
                    /\ UNCHANGED pc
              [] PollSend(q) = "closed" ->
                    /\ last' = Returned(r, "send", SendFailure)
                    /\ UNCHANGED <<pc, buf>>
              [] PollSend(q) = "pending" ->
                    /\ pc' = [pc EXCEPT ![r] =
                                [at |-> "send", message |-> m,
                                 turn |-> Cardinality(WaitingOn(pc, q)) + 1]]
                    /\ UNCHANGED <<last, buf>>
       ELSE /\ last' = Returned(r, "send", SendWhileDisconnected)
            /\ UNCHANGED <<pc, buf>>
    /\ UNCHANGED <<svc, state, coordVars, cap, rxAlive, original>>

\* A send suspended on a full queue is woken: a freed slot was handed to it
\* or the consumer end was dropped.
SendResume(r) ==
    /\ pc[r].at = "send"
    /\ LET q == state[r].outbound.queue IN
        /\ PollSuspended(pc, r) # "pending"
        /\ IF PollSuspended(pc, r) = "ready"
           THEN /\ buf' = [buf EXCEPT ![q] = Enqueue(@, pc[r].message)]
                /\ last' = Returned(r, "send", Ok)
           ELSE /\ last' = Returned(r, "send", SendFailure)
                /\ UNCHANGED buf
    /\ pc' = [pc EXCEPT ![r] = Idle]
    /\ UNCHANGED <<svc, state, coordVars, cap, rxAlive, original>>

\* The send() future is dropped while suspended on a full queue.
SendAbandon(r) ==
    /\ pc[r].at = "send"
    /\ pc' = Leave(pc, r)
    /\ last' = Returned(r, "send", Abandoned)
    /\ UNCHANGED <<svc, state, coordVars, queueVars>>

\* -------------------------------------------------------------- coordinator
\* The replies a coordinator can give to a relay-request: a success carrying
\* any erased value it can build (a clone of a producer end it holds, or some
\* other value), or one of its two errors about the requested service.
RelayResults(cmd) ==
    {[tag |-> "Ok", message |-> AnyMessage(p)] :
        p \in {x \in Payloads : x.kind = "OutboundRelay" => original[x.queue]}}
    \cup {Err(ErrUnavailable(cmd.service_id)), Err(ErrInvalidRequest(cmd.service_id))}

\* The coordinator answers a relay-request on its reply channel; the value is
\* lost when the receiver is already gone.
CoordReply(cmd, result) ==
    /\ cmd \in commands
    /\ commands' = commands \ {cmd}
    /\ chans' = [chans EXCEPT ![cmd.reply_channel] =
                    IF @.st = "open" THEN [st |-> "sent", val |-> result]
                    ELSE [st |-> "unused"]]
    /\ UNCHANGED <<svc, state, pc, last, queueVars>>

\* The coordinator drops a relay-request, and with it the reply sender,
\* without answering.
CoordDrop(cmd) ==
    /\ cmd \in commands
    /\ commands' = commands \ {cmd}
    /\ chans' = [chans EXCEPT ![cmd.reply_channel] =
                    IF @.st = "open" THEN [st |-> "tx_dropped"]
                    ELSE [st |-> "unused"]]
    /\ UNCHANGED <<svc, state, pc, last, queueVars>>

\* ----------------------------------------------------------------- consumer
\* InboundRelay::recv returning: the head of the buffer, or None once every
\* producer end is gone and the buffer is empty.
Recv(q) ==
    /\ rxAlive[q]
    /\ IF buf[q] # <<>>
       THEN /\ last' = Received(q, [tag |-> "Some", msg |-> Dequeue(buf[q]).msg])
            /\ buf' = [buf EXCEPT ![q] = Dequeue(@).rest]
            /\ pc' = Release(pc, q)
       ELSE /\ ProducerEnds(q) = 0
            /\ last' = Received(q, [tag |-> "None"])
            /\ UNCHANGED <<buf, pc>>
    /\ UNCHANGED <<svc, state, coordVars, cap, rxAlive, original>>

\* The InboundRelay is dropped: the queue closes and what it buffered is
\* dropped with it.
DropConsumer(q) ==
    /\ rxAlive[q]
    /\ rxAlive' = [rxAlive EXCEPT ![q] = FALSE]
    /\ buf' = [buf EXCEPT ![q] = <<>>]
    /\ UNCHANGED <<svc, state, pc, last, coordVars, cap, original>>

\* The OutboundRelay returned by relay() is dropped by its owner.
DropOriginal(q) ==
    /\ original[q]
    /\ original' = [original EXCEPT ![q] = FALSE]
    /\ UNCHANGED <<svc, state, pc, last, coordVars, cap, buf, rxAlive>>

\* ------------------------------------------------------------ specification
Next ==
    \/ \E r \in Relays, s \in Services : New(r, s)
    \/ \E r1 \in Relays, r2 \in Relays : Clone(r1, r2)
    \/ \E r \in Relays : Connect(r)
    \/ \E r \in Relays : RequestRelay(r)
    \/ \E r \in Relays : AwaitReply(r)
    \/ \E r \in Relays : ConnectAbandon(r)
    \/ \E r \in Relays : Disconnect(r)
    \/ \E r \in Relays, m \in Msgs : Send(r, m)
    \/ \E r \in Relays : SendResume(r)
    \/ \E r \in Relays : SendAbandon(r)
    \/ \E cmd \in commands : \E res \in RelayResults(cmd) : CoordReply(cmd, res)
    \/ \E cmd \in commands : CoordDrop(cmd)
    \/ \E q \in Queues : Recv(q)
    \/ \E q \in Queues : DropConsumer(q)
    \/ \E q \in Queues : DropOriginal(q)

Spec == Init /\ [][Next]_vars

\* ------------------------------------------------------ the handshake alone
\* A third specification, of the relays and the coordinator without the
\* queues' traffic, with the scheduling a connect() call relies on: the
\* coordinator's command channel accepts the request, the coordinator answers
\* or drops every request it holds, and the task awaiting a resolved reply
\* channel is polled again, unless the caller drops the future first.
CoordAnswers(c) ==
    \E cmd \in commands :
        /\ cmd.reply_channel = c
        /\ (CoordDrop(cmd) \/ \E res \in RelayResults(cmd) : CoordReply(cmd, res))

HandshakeNext ==
    \/ \E r \in Relays, s \in Services : New(r, s)
    \/ \E r1 \in Relays, r2 \in Relays : Clone(r1, r2)
    \/ \E r \in Relays : Connect(r)
    \/ \E r \in Relays : RequestRelay(r)
    \/ \E r \in Relays : AwaitReply(r)
    \/ \E r \in Relays : ConnectAbandon(r)
    \/ \E r \in Relays : Disconnect(r)
    \/ \E cmd \in commands : \E res \in RelayResults(cmd) : CoordReply(cmd, res)
    \/ \E cmd \in commands : CoordDrop(cmd)

HandshakeSpec ==
    /\ Init /\ [][HandshakeNext]_vars
    /\ \A r \in Relays : WF_vars(RequestRelay(r)) /\ WF_vars(AwaitReply(r))
    /\ \A c \in ChanIds : WF_vars(CoordAnswers(c))

\* ------------------------------------------------- the queue under traffic
\* A second specification for what the queue does with several messages: it
\* starts where relay 1 has just connected to queue q1, whose capacity is any
\* of 1..QMaxCap, and runs the relay operations that need no coordinator, the
\* consumer and the owner of the original producer end.  A message is named
\* after the relay that sends it and its place among that relay's messages
\* still in the queue.
QMaxCap == 3
QMaxSeq == 3

\* The messages of relay r buffered in queue q, and the message r sends next.
SentBy(r, q) == {i \in 1..Len(buf[q]) : buf[q][i].from = r}
NextSeq(r) ==
    IF state[r].tag # "Connected" THEN 1
    ELSE LET q == state[r].outbound.queue
             seqs == {buf[q][i].seq : i \in SentBy(r, q)}
         IN  IF seqs = {} THEN 1
             ELSE (CHOOSE k \in seqs : \A x \in seqs : x <= k) + 1
NextMessage(r) == [from |-> r, seq |-> NextSeq(r)]

QueueInit ==
    /\ svc = [r \in Relays |-> IF r = 1 THEN "SvcA" ELSE "none"]
    /\ state = [r \in Relays |-> IF r = 1 THEN Connected(OutboundRelay("q1"))
                                 ELSE NoRelay]
    /\ pc = [r \in Relays |-> Idle]
    /\ chans = [c \in ChanIds |-> [st |-> "unused"]]
    /\ commands = {}
    /\ cap \in {f \in [Queues -> 1..QMaxCap] : f["q2"] = 1}
    /\ buf = [q \in Queues |-> <<>>]
    /\ rxAlive = [q \in Queues |-> TRUE]
    /\ original = [q \in Queues |-> TRUE]
    /\ last = Returned(1, "connect", Ok)

QueueNext ==
    \/ \E r1 \in Relays, r2 \in Relays : Clone(r1, r2)
    \/ \E r \in Relays : Disconnect(r)
    \/ \E r \in Relays : NextSeq(r) <= QMaxSeq /\ Send(r, NextMessage(r))
    \/ \E r \in Relays : SendResume(r)
    \/ \E r \in Relays : SendAbandon(r)
    \/ \E q \in Queues : Recv(q)
    \/ \E q \in Queues : DropConsumer(q)
    \/ \E q \in Queues : DropOriginal(q)

QueueSpec == QueueInit /\ [][QueueNext]_vars

\* The same, with the scheduling of suspended sends: a send that was handed a
\* slot, or whose queue has closed, has had its task woken, and a woken task
\* is polled again unless its future is dropped first.
FairQueueSpec ==
    QueueSpec /\ \A r \in Relays : WF_vars(SendResume(r))

\* ------------------------------------------------------------------ claims
\* The reply a connect() call suspended in handle_relay_response has waiting
\* for it.
Reply(r) == chans[pc[r].receiver]

\* The reply waiting for relay r is a success whose erased value has type t.
RepliedWith(r, t) ==
    /\ pc[r].at = "handle_relay_response"
    /\ Reply(r).st = "sent"
    /\ Reply(r).val.tag = "Ok"
    /\ TypeOf(Reply(r).val.message.inner) = t

\* A step in which a send() call on relay r is polled, and one in which it is
\* polled or dropped.
SendPolled(r) == (\E m \in Msgs : Send(r, m)) \/ SendResume(r)
SendStep(r) == SendPolled(r) \/ SendAbandon(r)

\* A step in which a send() call on relay r returns res.
SendReturns(r, res) ==
    SendPolled(r) /\ pc'[r] = Idle /\ last' = Returned(r, "send", res)

\* Nothing but the record of the last call changes.
OnlyLastChanges == UNCHANGED <<svc, state, pc, chans, commands, cap, buf, rxAlive, original>>

\* C1: a relay is constructed Disconnected; a connect() answered with a
\* success holding a producer end of S's message type returns Ok and leaves
\* the relay Connected with exactly that producer end; and a send() that
\* succeeds on a Connected relay appends its message to the queue of the
\* producer end the relay holds and to no other queue.
C1_ConnectSuccess ==
    [][\A r \in Relays :
        /\ (\E s \in Services : New(r, s)) => state'[r] = Disconnected
        /\ (AwaitReply(r) /\ RepliedWith(r, <<"OutboundRelay", MessageOf(svc[r])>>))
             => /\ state[r] = Disconnected
                /\ last' = Returned(r, "connect", Ok)
                /\ state'[r] = Connected(Reply(r).val.message.inner)
        /\ SendReturns(r, Ok)
             => /\ state[r].tag = "Connected"
                /\ \E m \in Msgs :
                     buf' = [buf EXCEPT ![state[r].outbound.queue] = Append(@, m)]
      ]_vars

\* C1 witness: a send() has returned Ok on a Connected relay and its message
\* sits in the queue of the producer end the relay holds.
C1_Witness ==
    \E r \in Relays :
        /\ last = Returned(r, "send", Ok)
        /\ state[r].tag = "Connected"
        /\ buf[state[r].outbound.queue] # <<>>

\* C2: connect() on a Connected relay returns AlreadyConnected and changes
\* nothing else: same state and producer end, no command sent, no reply
\* channel created or awaited.
C2_AlreadyConnected ==
    [][\A r \in Relays :
        (Connect(r) /\ state[r].tag = "Connected")
            => /\ last' = Returned(r, "connect", Err(ErrAlreadyConnected))
               /\ OnlyLastChanges
      ]_vars

\* C2 witness: connect() has returned AlreadyConnected on a Connected relay.
C2_Witness ==
    \E r \in Relays :
        /\ last = Returned(r, "connect", Err(ErrAlreadyConnected))
        /\ state[r].tag = "Connected"

\* C3: send() on a Disconnected relay returns Disconnected and changes
\* nothing else: no queue's buffer changes, no command is sent, the relay
\* stays Disconnected.
C3_SendDisconnected ==
    [][\A r \in Relays :
        ((\E m \in Msgs : Send(r, m)) /\ state[r] = Disconnected)
            => /\ last' = Returned(r, "send", Err(ErrDisconnected))
               /\ OnlyLastChanges
      ]_vars

\* C3 witness: send() has returned Disconnected on a Disconnected relay.
C3_Witness ==
    \E r \in Relays :
        /\ last = Returned(r, "send", Err(ErrDisconnected))
        /\ state[r] = Disconnected

\* C4: no step of send() changes any relay's state; a send() on a Connected
\* relay whose queue has lost its consumer end returns Send, enqueues nothing
\* and leaves the relay Connected with the same producer end.
C4_SendKeepsState ==
    [][\A r \in Relays :
        SendStep(r)
            => /\ state' = state
               /\ (/\ SendPolled(r)
                   /\ state[r].tag = "Connected"
                   /\ ~rxAlive[state[r].outbound.queue])
                    => /\ SendReturns(r, Err(ErrSend))
                       /\ buf' = buf
      ]_vars

\* C4 witness: send() has returned Send on a relay that is still Connected to
\* a queue without consumer end.
C4_Witness ==
    \E r \in Relays :
        /\ last = Returned(r, "send", Err(ErrSend))
        /\ state[r].tag = "Connected"
        /\ ~rxAlive[state[r].outbound.queue]

\* C5: disconnect() returns Ok and leaves the relay Disconnected from either
\* state; on a Disconnected relay it changes nothing, so a second
\* disconnect() leaves the state the first one produced.
C5_Disconnect ==
    [][\A r \in Relays :
        Disconnect(r)
            => /\ last' = Returned(r, "disconnect", Ok)
               /\ state'[r] = Disconnected
               /\ DisconnectState(state'[r]) = state'[r]
               /\ state[r] = Disconnected => OnlyLastChanges
      ]_vars

\* C5 witness: disconnect() has returned Ok and the relay is Disconnected.
C5_Witness ==
    \E r \in Relays :
        /\ last = Returned(r, "disconnect", Ok)
        /\ state[r] = Disconnected

\* The reply waiting for relay r is a success whose erased value is not a
\* producer end of S's message type.
RepliedWithWrongType(r) ==
    \E p \in Payloads :
        /\ TypeOf(p) # <<"OutboundRelay", MessageOf(svc[r])>>
        /\ RepliedWith(r, TypeOf(p))

\* C6: a connect() answered with a success whose erased value is not a
\* producer end of S's message type returns InvalidMessage naming S's
\* SERVICE_ID, and the relay stays Disconnected.
C6_InvalidMessage ==
    [][\A r \in Relays :
        (AwaitReply(r) /\ RepliedWithWrongType(r))
            => /\ last'.op = "connect" /\ last'.relay = r
               /\ last'.res.tag = "Err"
               /\ last'.res.error.kind = "InvalidMessage"
               /\ last'.res.error.service_id = SERVICE_ID(svc[r])
               /\ state[r] = Disconnected /\ state'[r] = Disconnected
      ]_vars

\* C6 witness: connect() on a Relay<SvcB> has returned InvalidMessage naming
\* SvcB after a reply that carried a producer end of SvcA's message type.
C6_Witness ==
    \E r \in Relays :
        /\ svc[r] = "SvcB"
        /\ last.op = "connect" /\ last.relay = r
        /\ last.res.tag = "Err"
        /\ last.res.error.kind = "InvalidMessage"
        /\ last.res.error.service_id = SERVICE_ID("SvcB")
        /\ state[r] = Disconnected

\* C7: on a failed downcast the type_id of the InvalidMessage error is the
\* Debug text of the type identity of the value wrapped in the reply.
C7_TypeIdOfPayload ==
    [][\A r \in Relays :
        (AwaitReply(r) /\ RepliedWithWrongType(r))
            => /\ last'.res.tag = "Err"
               /\ last'.res.error.kind = "InvalidMessage"
               /\ last'.res.error.type_id
                    = FormatTypeId(TypeOf(Reply(r).val.message.inner))
      ]_vars

\* C8: a connect() answered with a RelayError returns that very error and the
\* relay stays Disconnected.
C8_ErrorPropagated ==
    [][\A r \in Relays :
        (/\ AwaitReply(r)
         /\ Reply(r).st = "sent"
         /\ Reply(r).val.tag = "Err")
            => /\ last' = Returned(r, "connect", Err(Reply(r).val.error))
               /\ Reply(r).val.error.kind \in {"Unavailable", "InvalidRequest"}
               /\ state[r] = Disconnected /\ state'[r] = Disconnected
      ]_vars

\* C8 witness: connect() has returned Unavailable or InvalidRequest and the
\* relay is Disconnected.
C8_Witness ==
    \E r \in Relays :
        /\ last.op = "connect" /\ last.relay = r
        /\ last.res.tag = "Err"
        /\ last.res.error.kind \in {"Unavailable", "InvalidRequest"}
        /\ state[r] = Disconnected

\* C9: a connect() whose reply sender was dropped without a reply returns
\* Receiver and the relay stays Disconnected.
C9_ReceiverError ==
    [][\A r \in Relays :
        (AwaitReply(r) /\ Reply(r).st = "tx_dropped")
            => /\ last'.op = "connect" /\ last'.relay = r
               /\ last'.res.tag = "Err"
               /\ last'.res.error.kind = "Receiver"
               /\ state[r] = Disconnected /\ state'[r] = Disconnected
      ]_vars

\* C9 witness: connect() has returned Receiver and the relay is Disconnected.
C9_Witness ==
    \E r \in Relays :
        /\ last.op = "connect" /\ last.relay = r
        /\ last.res.tag = "Err"
        /\ last.res.error.kind = "Receiver"
        /\ state[r] = Disconnected

\* A step of connect() or disconnect() on relay r.
ConnectOrDisconnectStep(r) ==
    Connect(r) \/ RequestRelay(r) \/ AwaitReply(r) \/ ConnectAbandon(r) \/ Disconnect(r)

\* C10: a clone starts with the state of the relay it was cloned from (when
\* Connected, with a producer end of the same queue), and a step of connect()
\* or disconnect() on one relay leaves every other relay's state as it was and
\* the queue a Connected one writes to as ready for its sends as before.
C10_ClonesIndependent ==
    [][\A r \in Relays :
        /\ \A src \in Relays : Clone(src, r)
                => /\ state'[r] = state[src]
                   /\ state'[src] = state[src]
        /\ ConnectOrDisconnectStep(r)
                => \A r2 \in Relays \ {r} :
                     /\ state'[r2] = state[r2]
                     /\ state[r2].tag = "Connected"
                          => PollSend(state[r2].outbound.queue)'
                               = PollSend(state[r2].outbound.queue)
      ]_vars

\* C10 witness: the relay a disconnect() has just left Disconnected has a
\* sibling that is still Connected.
C10_Witness ==
    \E r \in Relays, r2 \in Relays :
        /\ last = Returned(r, "disconnect", Ok)
        /\ svc[r2] = svc[r]
        /\ state[r] = Disconnected
        /\ state[r2].tag = "Connected"

\* The one-shot channel a connect() call in progress on relay r holds an end
\* of, and the relay-requests in flight that carry the sender of channel c.
InHandshake(r) == pc[r].at \in {"request_relay", "handle_relay_response"}
ChanOf(r) == IF pc[r].at = "request_relay" THEN pc[r].reply ELSE pc[r].receiver
RequestsOn(c) == {cmd \in commands : cmd.reply_channel = c}

\* At every moment: concurrent connect() calls hold different reply channels;
\* a request in flight carries a channel not yet answered; a call that has not
\* sent its request has none in flight; a call awaiting its reply has exactly
\* one request in flight, carrying its own service's id, until the reply (or
\* the drop of the sender) arrives, and none afterwards.
OneRequestPerConnect ==
    /\ \A r1, r2 \in Relays :
         (InHandshake(r1) /\ InHandshake(r2) /\ r1 # r2) => ChanOf(r1) # ChanOf(r2)
    /\ \A cmd \in commands : chans[cmd.reply_channel].st \in {"open", "rx_dropped"}
    /\ \A r \in Relays :
         /\ pc[r].at = "request_relay"
              => chans[ChanOf(r)].st = "open" /\ RequestsOn(ChanOf(r)) = {}
         /\ (pc[r].at = "handle_relay_response" /\ Reply(r).st = "open")
              => RequestsOn(ChanOf(r)) = {RelayCommand(svc[r], ChanOf(r))}
         /\ (pc[r].at = "handle_relay_response" /\ Reply(r).st # "open")
              => /\ Reply(r).st \in {"sent", "tx_dropped"}
                 /\ RequestsOn(ChanOf(r)) = {}

\* C14: each connect() made while Disconnected creates a reply channel no
\* other call or request holds and sends exactly one relay-request, carrying
\* S's identifier and that channel; the coordinator's answer to a request
\* reaches only that request's channel, a delivered reply is never replaced by
\* another, and the call returns what handle_relay_response makes of the one
\* reply on its own channel.
C14_OneReplyPerConnect ==
    /\ []OneRequestPerConnect
    /\ [][/\ \A r \in Relays :
              /\ (Connect(r) /\ state[r] = Disconnected)
                   => /\ pc'[r].at = "request_relay"
                      /\ chans[pc'[r].reply].st = "unused"
                      /\ commands' = commands
              /\ RequestRelay(r)
                   => /\ RelayCommand(svc[r], pc[r].reply) \notin commands
                      /\ commands' = commands \cup {RelayCommand(svc[r], pc[r].reply)}
                      /\ pc'[r].receiver = pc[r].reply
              /\ AwaitReply(r)
                   => /\ last' = Returned(r, "connect",
                                    HandleRelayResponse(state[r], svc[r], Response(Reply(r))).result)
                      /\ chans'[pc[r].receiver].st = "unused"
          /\ \A cmd \in commands :
               (CoordDrop(cmd) \/ \E res \in RelayResults(cmd) : CoordReply(cmd, res))
                   => \A c \in ChanIds \ {cmd.reply_channel} : chans'[c] = chans[c]
          /\ \A c \in ChanIds :
               chans[c].st = "sent" => (chans'[c] = chans[c] \/ chans'[c].st = "unused")
        ]_vars

\* C14 witness: two connect() calls ran concurrently; relay 1's has returned
\* Ok from its own reply while relay 2's still awaits, with an error reply
\* delivered on its own channel.
C14_Witness ==
    /\ last = Returned(1, "connect", Ok)
    /\ state[1].tag = "Connected"
    /\ pc[2].at = "handle_relay_response"
    /\ Reply(2).st = "sent"
    /\ Reply(2).val.tag = "Err"

\* A step of the connect() call in progress on relay r.
ConnectStep(r) == RequestRelay(r) \/ AwaitReply(r) \/ ConnectAbandon(r)

\* C15: while a connect() call started from Disconnected is in progress (its
\* request not yet sent, or sent and the reply awaited) the relay is
\* Disconnected; the call's first step, the sending of the request and its
\* abandonment leave the state as it is; and the state changes in a step of
\* the call only when that step returns Ok, to Connected.
C15_StateOnlyOnSuccess ==
    /\ [](\A r \in Relays : InHandshake(r) => state[r] = Disconnected)
    /\ [][\A r \in Relays :
            /\ (Connect(r) \/ RequestRelay(r) \/ ConnectAbandon(r))
                 => state'[r] = state[r]
            /\ ConnectAbandon(r)
                 => state'[r] = Disconnected /\ pc'[r] = Idle
            /\ (ConnectStep(r) /\ state'[r] # state[r])
                 => /\ last' = Returned(r, "connect", Ok)
                    /\ state'[r].tag = "Connected"
            /\ (AwaitReply(r) /\ last' # Returned(r, "connect", Ok))
                 => state'[r] = Disconnected
       ]_vars

\* C15 witness: a connect() call was abandoned while it awaited the reply to
\* the request it had sent; the relay is Disconnected.
C15_Witness ==
    \E r \in Relays :
        /\ last = Returned(r, "connect", Abandoned)
        /\ state[r] = Disconnected
        /\ \E c \in ChanIds : chans[c].st = "rx_dropped"

\* C17: disconnect() leaves the relay in the state from which connect()
\* proceeds; whenever a constructed relay is Disconnected with no call in
\* progress, connect() can start (a reply channel being available); started
\* from Disconnected it opens a reply channel of its own and goes on to send a
\* relay-request that was not in flight before; and on a successful reply the
\* relay is Connected with the producer end that reply delivers.
C17_NoTerminalState ==
    /\ [](\A r \in Relays :
            (svc[r] # "none" /\ pc[r] = Idle /\ state[r] = Disconnected
             /\ FreeChans # {})
                => ENABLED (Connect(r) /\ pc'[r].at = "request_relay"))
    /\ [][\A r \in Relays :
            /\ Disconnect(r) => ConnectProceeds(state'[r])
            /\ (Connect(r) /\ state[r] = Disconnected)
                 => /\ pc'[r].at = "request_relay"
                    /\ chans[pc'[r].reply].st = "unused"
                    /\ chans'[pc'[r].reply].st = "open"
            /\ RequestRelay(r)
                 => /\ RequestsOn(pc[r].reply) = {}
                    /\ \E cmd \in commands' : cmd.reply_channel = pc[r].reply
            /\ (AwaitReply(r) /\ last' = Returned(r, "connect", Ok))
                 => state'[r] = Connected(Reply(r).val.message.inner)
       ]_vars

\* C17 witness: the only relay constructed sent a message into queue q1,
\* disconnected, connected again, and now holds the producer end of queue q2
\* that the second reply delivered.
C17_Witness ==
    /\ svc[2] = "none"
    /\ buf["q1"] # <<>>
    /\ state[1] = Connected(OutboundRelay("q2"))
    /\ last = Returned(1, "connect", Ok)

\* Relay r is Connected to a queue whose consumer end has been dropped.
ConnectedToClosed(r) ==
    state[r].tag = "Connected" /\ ~rxAlive[state[r].outbound.queue]

\* C19: a Connected relay whose queue has lost its consumer changes state
\* only in a disconnect() step; every poll of a send() on it returns Send and
\* appends nothing; every connect() on it returns AlreadyConnected at once,
\* with no reply channel created and no relay-request sent.
C19_ClosedStaysConnected ==
    [][\A r \in Relays :
         ConnectedToClosed(r)
           => /\ state'[r] # state[r] => Disconnect(r)
              /\ SendPolled(r)
                   => /\ last' = Returned(r, "send", Err(ErrSend))
                      /\ pc'[r] = Idle
                      /\ buf' = buf
              /\ Connect(r)
                   => /\ last' = Returned(r, "connect", Err(ErrAlreadyConnected))
                      /\ pc'[r] = Idle
                      /\ UNCHANGED <<state, chans, commands>>
      ]_vars

\* C19 witness: connect() has returned AlreadyConnected on a relay that is
\* Connected to a queue whose consumer end is gone.
C19_Witness ==
    \E r \in Relays :
        /\ ConnectedToClosed(r)
        /\ last = Returned(r, "connect", Err(ErrAlreadyConnected))

\* Relay r holds a producer end of queue q; a reply not yet read carries one;
\* and no producer end of q is left anywhere.
HoldsEnd(r, q) == state[r].tag = "Connected" /\ state[r].outbound.queue = q
InReply(c, q) ==
    /\ chans[c].st = "sent"
    /\ chans[c].val.tag = "Ok"
    /\ chans[c].val.message.inner = OutboundRelay(q)
NoProducerEnd(q) ==
    /\ ~original[q]
    /\ \A r \in Relays : ~HoldsEnd(r, q)
    /\ \A c \in ChanIds : ~InReply(c, q)

\* C20: disconnect() on a relay Connected to queue q drops that relay's
\* producer end and no other, and touches no buffer.  With the consumer end
\* alive: once no producer end of q is left, recv() returns, the buffered
\* messages first and the end-of-stream indication when the buffer is empty;
\* while a Connected relay, the original handle or an unread reply still holds
\* a producer end and the buffer is empty, recv() does not return; and recv()
\* returns the end-of-stream indication only with no producer end left.
C20_DisconnectReleasesEnd ==
    /\ [](\A q \in Queues :
            rxAlive[q]
              => /\ NoProducerEnd(q) => ENABLED Recv(q)
                 /\ (~NoProducerEnd(q) /\ buf[q] = <<>>) => ~ENABLED Recv(q))
    /\ [][\A q \in Queues :
            /\ \A r \in Relays :
                 (Disconnect(r) /\ HoldsEnd(r, q))
                    => /\ ~HoldsEnd(r, q)'
                       /\ \A x \in Relays \ {r} : HoldsEnd(x, q)' = HoldsEnd(x, q)
                       /\ UNCHANGED <<buf, rxAlive, original, chans>>
            /\ Recv(q)
                 => IF buf[q] # <<>>
                    THEN last' = Received(q, [tag |-> "Some", msg |-> Head(buf[q])])
                    ELSE /\ last' = Received(q, [tag |-> "None"])
                         /\ NoProducerEnd(q)
       ]_vars

\* C20 witness: the only relay constructed sent a message into queue q1 and
\* was then disconnected; that was the last producer end of q1, whose consumer
\* still has the message to read.
C20_Witness ==
    /\ svc[2] = "none"
    /\ last = Returned(1, "disconnect", Ok)
    /\ NoProducerEnd("q1")
    /\ rxAlive["q1"] /\ buf["q1"] # <<>>

\* In the buffer b the messages of each producer stand in the order that
\* producer sent them.
PerProducerOrder(b) ==
    \A i, j \in 1..Len(b) :
        (i < j /\ b[i].from = b[j].from) => b[i].seq < b[j].seq

\* C11: in every queue the buffered messages of each producer end stand in
\* that end's enqueue order, whatever the interleaving with the sends of the
\* other ends.  The buffer changes in three ways only: a send of a relay
\* holding an end of the queue returns Ok and its message is put behind every
\* message buffered; a recv() returns the message at the front, which is
\* older than every message of the same producer end that stays buffered; or
\* the consumer end is dropped.
C11_PerProducerFifo ==
    /\ [](\A q \in Queues : PerProducerOrder(buf[q]))
    /\ [][\A q \in Queues :
            buf'[q] # buf[q]
              => \/ /\ Len(buf'[q]) = Len(buf[q]) + 1
                    /\ SubSeq(buf'[q], 1, Len(buf[q])) = buf[q]
                    /\ LET m == buf'[q][Len(buf'[q])] IN
                       /\ HoldsEnd(m.from, q)
                       /\ last' = Returned(m.from, "send", Ok)
                       /\ pc'[m.from] = Idle
                 \/ /\ Recv(q)
                    /\ last' = Received(q, [tag |-> "Some", msg |-> buf[q][1]])
                    /\ buf'[q] = SubSeq(buf[q], 2, Len(buf[q]))
                    /\ \A i \in 1..Len(buf'[q]) :
                         buf'[q][i].from = buf[q][1].from
                            => buf[q][1].seq < buf'[q][i].seq
                 \/ DropConsumer(q) /\ buf'[q] = <<>>
       ]_vars

\* C11 witness: relays 1 and 2 hold producer ends of queue q1 and their sends
\* interleaved; the consumer has received relay 1's first message, and relay
\* 2's message stands between the consumer and relay 1's second.
C11_Witness ==
    /\ last = Received("q1", [tag |-> "Some", msg |-> [from |-> 1, seq |-> 1]])
    /\ buf["q1"] = <<[from |-> 2, seq |-> 1], [from |-> 1, seq |-> 2]>>

\* The slots of queue q that are taken: filled with a message, or handed to a
\* suspended send that has not yet put its message in.
Taken(q) == Len(buf[q]) + Cardinality(GrantedOn(pc, q))

\* C12: a queue of capacity c never buffers more than c messages, and sends
\* wait in line only while all c slots are taken.  A send on a relay holding
\* an end of a queue with a consumer completes at once, its message appended,
\* when fewer than c slots are taken, and suspends, appending nothing, when
\* all c are; a send waiting in line is handed a slot only when recv() takes
\* a message out (or when a send that had been handed one is dropped), and a
\* suspended send completes only once it has been handed a slot.
C12_Capacity ==
    /\ [](\A q \in Queues :
            /\ Len(buf[q]) <= cap[q]
            /\ Taken(q) <= cap[q]
            /\ (rxAlive[q] /\ WaitingOn(pc, q) # {}) => Taken(q) = cap[q])
    /\ [][\A r \in Relays :
            /\ (Send(r, NextMessage(r)) /\ state[r].tag = "Connected"
                /\ rxAlive[state[r].outbound.queue])
                 => LET q == state[r].outbound.queue IN
                    IF Taken(q) < cap[q]
                    THEN /\ buf'[q] = Append(buf[q], NextMessage(r))
                         /\ pc'[r] = Idle
                         /\ last' = Returned(r, "send", Ok)
                    ELSE /\ buf' = buf
                         /\ pc'[r].at = "send" /\ pc'[r].turn >= 1
                         /\ last' = last
            /\ (pc[r].at = "send" /\ pc'[r].at = "send"
                /\ pc[r].turn >= 1 /\ pc'[r].turn = 0)
                 => LET q == state[r].outbound.queue IN
                    \/ Recv(q) /\ Len(buf'[q]) = Len(buf[q]) - 1
                    \/ \E x \in GrantedOn(pc, q) : SendAbandon(x)
            /\ (SendResume(r) /\ last' = Returned(r, "send", Ok))
                 => /\ pc[r].turn = 0
                    /\ buf'[state[r].outbound.queue]
                         = Append(buf[state[r].outbound.queue], pc[r].message)
       ]_vars

\* C12 witness: queue q1 has capacity 2; relay 1's first two sends completed
\* with no message received, and its third is suspended, waiting in line.
C12_Witness ==
    /\ cap["q1"] = 2
    /\ buf["q1"] = <<[from |-> 1, seq |-> 1], [from |-> 1, seq |-> 2]>>
    /\ pc[1].at = "send"
    /\ pc[1].message = [from |-> 1, seq |-> 3]
    /\ pc[1].turn = 1
    /\ last = Returned(1, "send", Ok)

\* C13: dropping a producer end (disconnect(), or the owner dropping the
\* original) leaves every buffer as it is.  Once no producer end of a queue is
\* left none appears again, and while its consumer end lives the buffer
\* changes only by recv() taking the message at the front: each recv()
\* returns the first buffered message and leaves the rest in their order, and
\* recv() returns the end-of-stream indication only when the buffer is empty,
\* and can return it then.
C13_DrainAfterClose ==
    /\ [](\A q \in Queues :
            (NoProducerEnd(q) /\ rxAlive[q]) => ENABLED Recv(q))
    /\ [][\A q \in Queues :
            /\ ((\E r \in Relays : Disconnect(r)) \/ DropOriginal(q))
                 => buf' = buf
            /\ NoProducerEnd(q)
                 => /\ NoProducerEnd(q)'
                    /\ (rxAlive'[q] /\ buf'[q] # buf[q]) => Recv(q)
                    /\ Recv(q)
                         => IF buf[q] # <<>>
                            THEN /\ last' = Received(q, [tag |-> "Some",
                                                         msg |-> buf[q][1]])
                                 /\ buf'[q] = SubSeq(buf[q], 2, Len(buf[q]))
                            ELSE /\ last' = Received(q, [tag |-> "None"])
                                 /\ buf' = buf
       ]_vars

\* C13 witness: every producer end of queue q1 is gone; of the two messages
\* relay 1 had sent, the consumer has received the first, and the second is
\* still buffered.
C13_Witness ==
    /\ NoProducerEnd("q1")
    /\ last = Received("q1", [tag |-> "Some", msg |-> [from |-> 1, seq |-> 1]])
    /\ buf["q1"] = <<[from |-> 1, seq |-> 2]>>

\* The send() call of relay r is suspended, and it has been woken: it was
\* handed a slot, or the consumer end of its queue is gone.
Suspended(r) == pc[r].at = "send"
Woken(r) ==
    Suspended(r) /\ (pc[r].turn = 0 \/ ~rxAlive[state[r].outbound.queue])

\* C16: a send on a queue whose slots are all taken suspends and returns
\* nothing; a recv() that takes a message out while sends wait in line hands
\* the freed slot to the first of them; when the consumer end is dropped
\* every suspended send is woken; a woken send returns Ok, its message
\* appended, if the consumer end is alive, and Send if it is gone; and a woken
\* send does not stay suspended.
C16_SuspendedSendResolves ==
    /\ [][/\ \A r \in Relays :
               /\ (Send(r, NextMessage(r)) /\ state[r].tag = "Connected"
                   /\ rxAlive[state[r].outbound.queue]
                   /\ Taken(state[r].outbound.queue) = cap[state[r].outbound.queue])
                    => Suspended(r)' /\ ~Woken(r)' /\ last' = last
               /\ SendResume(r)
                    => /\ Woken(r)
                       /\ pc'[r] = Idle
                       /\ LET q == state[r].outbound.queue IN
                          IF rxAlive[q]
                          THEN /\ last' = Returned(r, "send", Ok)
                               /\ buf'[q] = Append(buf[q], pc[r].message)
                          ELSE /\ last' = Returned(r, "send", Err(ErrSend))
                               /\ buf' = buf
          /\ \A q \in Queues :
               /\ (Recv(q) /\ buf[q] # <<>> /\ WaitingOn(pc, q) # {})
                    => \E r \in WaitingOn(pc, q) : pc[r].turn = 1 /\ Woken(r)'
               /\ DropConsumer(q)
                    => \A r \in SuspendedOn(pc, q) : Woken(r)'
       ]_vars
    /\ \A r \in Relays : Woken(r) ~> ~Suspended(r)

\* C16 witness: relay 1's send was suspended on the full queue q1 and relay
\* 2's behind it; the consumer received a message, and relay 1's send has been
\* handed the freed slot while relay 2's still waits.
C16_Witness ==
    /\ last = Received("q1", [tag |-> "Some", msg |-> [from |-> 1, seq |-> 1]])
    /\ pc[1].at = "send" /\ pc[1].turn = 0
    /\ pc[2].at = "send" /\ pc[2].turn = 1
    /\ rxAlive["q1"]

\* C18: a connect() call in progress comes to an end when the coordinator
\* accepts its request and answers it or drops the reply sender, and it ends,
\* unless the caller drops it, by returning Ok or an error.  While the call
\* awaits a reply channel whose sender is alive and unused, it cannot return:
\* no step of the call is possible but its abandonment by the caller.
C18_ConnectReturns ==
    /\ \A r \in Relays : InHandshake(r) ~> pc[r] = Idle
    /\ [](\A r \in Relays :
            (pc[r].at = "handle_relay_response" /\ Reply(r).st = "open")
                => ~ENABLED AwaitReply(r))
    /\ [][\A r \in Relays :
            /\ (InHandshake(r) /\ pc'[r] = Idle)
                 => \/ ConnectAbandon(r)
                    \/ /\ AwaitReply(r)
                       /\ last'.op = "connect" /\ last'.relay = r
                       /\ last'.res.tag \in {"Ok", "Err"}
            /\ (pc[r].at = "handle_relay_response" /\ Reply(r).st = "open"
                /\ pc'[r] # pc[r])
                 => /\ ConnectAbandon(r)
                    /\ last' = Returned(r, "connect", Abandoned)
       ]_vars

\* C18 witness: relay 1's connect() has returned on the coordinator's reply,
\* while relay 2's, its request accepted but not answered, is still waiting.
C18_Witness ==
    /\ last = Returned(1, "connect", Ok)
    /\ pc[2].at = "handle_relay_response"
    /\ Reply(2).st = "open"
    /\ RequestsOn(pc[2].receiver) # {}

====
